---- MODULE Spec2Model ----
(***************************************************************************)
(* JinStore backend (src/index.js): an Express application over two        *)
(* Mongoose collections, products and cart lines.  Every request handler   *)
(* is an async function; a handler runs without interruption between two   *)
(* awaits and other requests may run while it is suspended at one.  Each   *)
(* action below is one such uninterrupted stretch of a handler.            *)
(*                                                                         *)
(* The store is assumed to be reachable: a rejected promise comes only     *)
(* from what the request carries (a cast or validation error), never from  *)
(* a lost connection.                                                      *)
(***************************************************************************)
EXTENDS Integers, Sequences, FiniteSets, TLC

\* ------------------------------------------------------------- bounds
MaxProdReqs == 2     \* POST /api/products requests in one behaviour
MaxCartReqs == 3     \* POST /api/cart requests in one behaviour
MaxCartProducts == 1 \* of them, those beside the cart requests
MaxClock == 1        \* Date.now() takes the values 0..MaxClock

\* ------------------------------------------------- program constants
FileSizeLimit == 5242880    \* limits.fileSize: 1024 * 1024 * 5
MaxFiles == 5               \* upload.array('images', 5)
RatingMin == 0
RatingMax == 5

ProdReqs == 1..MaxProdReqs
CartProducts == 1..MaxCartProducts
CartReqs == 1..MaxCartReqs

VARIABLES
  products,    \* the products collection, in storage (insertion) order
  cart,        \* the cart collection, in storage (insertion) order
  now,         \* Date.now()
  preq,        \* the POST /api/products requests
  creq,        \* the POST /api/cart requests
  listResp     \* the response of the latest GET /api/products

vars == <<products, cart, now, preq, creq, listResp>>

\* ------------------------------------------------ JavaScript values
\* A request field: absent (undefined) or a text.
\* Numeric fields carry their text as a sequence of characters, the others
\* as a string.
Absent == [present |-> FALSE, text |-> <<>>]
AbsentStr == [present |-> FALSE, text |-> ""]
Txt(s) == [present |-> TRUE, text |-> s]
\* A JSON number field of the cart body: absent or an integer.
NoNumber == [present |-> FALSE, value |-> 0]
JsonNum(n) == [present |-> TRUE, value |-> n]
\* A JavaScript number: NaN or a value.
NaN == [isNaN |-> TRUE, value |-> 0]
Num(n) == [isNaN |-> FALSE, value |-> n]

\* !field for a multipart text field given as a string: undefined and ""
FalsyStr(f) == ~f.present \/ f.text = ""
\* !field for a multipart text field given as a sequence of characters
FalsyTxt(f) == ~f.present \/ f.text = <<>>
\* !quantity for a JSON number: undefined and 0
FalsyNum(q) == ~q.present \/ q.value = 0

Digits == <<"0", "1", "2", "3", "4", "5", "6", "7", "8", "9">>
IsDigit(c) == \E d \in 1..10 : Digits[d] = c
DigitValue(c) == (CHOOSE d \in 1..10 : Digits[d] = c) - 1

RECURSIVE DigitPrefixLen(_)
DigitPrefixLen(s) ==
  IF s = <<>> \/ ~IsDigit(Head(s)) THEN 0 ELSE 1 + DigitPrefixLen(Tail(s))

RECURSIVE DigitsValue(_)
DigitsValue(s) ==
  IF s = <<>> THEN 0 ELSE 10 * DigitsValue(SubSeq(s, 1, Len(s) - 1)) + DigitValue(s[Len(s)])

\* parseFloat on texts over signs, digits and letters: an optional sign, then
\* the longest prefix of digits; NaN when there is no digit there.
parseFloat(s) ==
  LET signed == s # <<>> /\ Head(s) \in {"-", "+"}
      rest == IF signed THEN Tail(s) ELSE s
      n == DigitPrefixLen(rest)
      magnitude == DigitsValue(SubSeq(rest, 1, n))
  IN IF n = 0 THEN NaN
     ELSE IF signed /\ Head(s) = "-" THEN Num(0 - magnitude) ELSE Num(magnitude)

\* ------------------------------------------------------ upload (multer)
AllowedMime == {"image/jpeg", "image/png", "image/jpg"}

fileFilter(file) == file.mimetype \in AllowedMime

\* The outcome of upload.array('images', 5) on the files of a request, taken
\* in order: a file beyond the fifth is a MulterError, a file the filter
\* refuses is the filter's plain Error, a file over the size limit is a
\* MulterError; otherwise the file is stored and its path kept.
RECURSIVE uploadFrom(_, _, _)
uploadFrom(files, i, paths) ==
  IF i > Len(files) THEN [kind |-> "ok", message |-> "", paths |-> paths]
  ELSE IF i > MaxFiles
    THEN [kind |-> "MulterError", message |-> "Unexpected field", paths |-> <<>>]
  ELSE IF ~fileFilter(files[i])
    THEN [kind |-> "Error", message |-> "Only JPEG, JPG, and PNG images are allowed!",
          paths |-> <<>>]
  ELSE IF files[i].size > FileSizeLimit
    THEN [kind |-> "MulterError", message |-> "File too large", paths |-> <<>>]
  ELSE uploadFrom(files, i + 1, Append(paths, files[i].path))

upload(files) == uploadFrom(files, 1, <<>>)

\* The error handling middleware.
errorMiddleware(err) ==
  IF err.kind = "MulterError"
  THEN [status |-> 400, error |-> "File upload error: " \o err.message]
  ELSE [status |-> 500, error |-> "Something went wrong!"]

\* ------------------------------------------------------------ schemas
ItemTypes == {"cold", "organic", "regular"}

\* Mutant of TitleOrPriceMissing: && for ||.
TitleOrPriceMissingAnd(body) == FalsyStr(body.title) /\ FalsyTxt(body.price)

\* !title || !price
TitleOrPriceMissing(body) == FalsyStr(body.title) \/ FalsyTxt(body.price)

\* new Product({...}) of the create handler, createdAt defaulting to Date.now.

newProduct(body, imagePaths, t) ==
  [title |-> body.title.text,
   price |-> parseFloat(body.price.text),
   discount |-> IF FalsyTxt(body.discount) THEN Num(0) ELSE parseFloat(body.discount.text),
   itemType |-> IF FalsyStr(body.itemType) THEN "regular" ELSE body.itemType.text,
   rating |-> IF FalsyTxt(body.rating) THEN Num(0) ELSE parseFloat(body.rating.text),
   images |-> imagePaths,
   createdAt |-> t]

\* productSchema's validation, run by save().
productValid(doc) ==
  /\ doc.title # ""
  /\ ~doc.price.isNaN
  /\ ~doc.discount.isNaN
  /\ doc.itemType \in ItemTypes
  /\ ~doc.rating.isNaN
  /\ doc.rating.value >= RatingMin
  /\ doc.rating.value <= RatingMax

NoDoc == [title |-> "", price |-> NaN, discount |-> NaN, itemType |-> "",
          rating |-> NaN, images |-> <<>>, createdAt |-> 0]

\* Product.find().sort({ createdAt: -1 }): an insertion sort of the collection,
\* most recent first, documents of one timestamp staying in storage order.
RECURSIVE insertByCreatedAt(_, _)
\* Mutant of insertByCreatedAt: { createdAt: 1 }, oldest first.
insertByCreatedAtAsc(doc, sorted) ==
  IF sorted = <<>> THEN <<doc>>
  ELSE IF Head(sorted).createdAt > doc.createdAt
    THEN <<doc>> \o sorted
    ELSE <<Head(sorted)>> \o insertByCreatedAt(doc, Tail(sorted))

insertByCreatedAt(doc, sorted) ==
  IF sorted = <<>> THEN <<doc>>
  ELSE IF Head(sorted).createdAt < doc.createdAt
    THEN <<doc>> \o sorted
    ELSE <<Head(sorted)>> \o insertByCreatedAt(doc, Tail(sorted))

RECURSIVE sortByCreatedAtDesc(_)
sortByCreatedAtDesc(coll) ==
  IF coll = <<>> THEN <<>>
  ELSE insertByCreatedAt(coll[Len(coll)], sortByCreatedAtDesc(SubSeq(coll, 1, Len(coll) - 1)))

\* ------------------------------------------------------------- inputs
File(mime, size, path) == [mimetype |-> mime, size |-> size, path |-> path]
Jpeg == File("image/jpeg", 1000, "uploads/a.jpg")
Png == File("image/png", FileSizeLimit, "uploads/b.png")
Pdf == File("application/pdf", 1000, "uploads/c.pdf")
BigPng == File("image/png", FileSizeLimit + 1, "uploads/d.png")

FileBatches ==
  { <<Jpeg>>, <<Jpeg, Png, Jpeg, Png, Jpeg>>, <<Jpeg, Png, Jpeg, Png, Jpeg, Png>>,
    <<Pdf>>, <<BigPng>> }

BaseBody ==
  [title |-> Txt("Milk"), price |-> Txt(<<"1", "0">>), discount |-> Absent,
   itemType |-> AbsentStr, rating |-> Absent]

\* The create-product bodies: the base body with one field changed.
ProductBodies ==
  {BaseBody}
  \cup {[BaseBody EXCEPT !.title = t] : t \in {AbsentStr, Txt("")}}
  \cup {[BaseBody EXCEPT !.price = p] :
          p \in {Absent, Txt(<<"a", "b", "c">>), Txt(<<"-", "5">>), Txt(<<"5", "a">>)}}
  \cup {[BaseBody EXCEPT !.discount = d] : d \in {Txt(<<"x">>)}}
  \cup {[BaseBody EXCEPT !.itemType = i] : i \in {Txt("cold"), Txt("bogus")}}
  \cup {[BaseBody EXCEPT !.rating = g] : g \in {Txt(<<"3">>), Txt(<<"7">>)}}

\* A create-product request: a body with no files, the base body with each
\* batch of files, or a body that lacks a required field with an accepted or
\* a refused file.
ProductRequests ==
  {[body |-> b, files |-> <<>>] : b \in ProductBodies}
  \cup {[body |-> BaseBody, files |-> f] : f \in FileBatches}
  \cup {[body |-> [BaseBody EXCEPT !.title = AbsentStr], files |-> f] :
          f \in {<<Jpeg>>, <<Pdf>>}}
  \cup {[body |-> [BaseBody EXCEPT !.price = Absent], files |-> <<BigPng>>]}

\* The product ids a cart request may carry: none, a text that is no
\* ObjectId, or the ObjectId the store gives to its n-th product.
NoProductId == [present |-> FALSE, wellFormed |-> FALSE, id |-> 0]
MalformedId == [present |-> TRUE, wellFormed |-> FALSE, id |-> 0]
Oid(n) == [present |-> TRUE, wellFormed |-> TRUE, id |-> n]
ProductIds == {NoProductId, MalformedId} \cup {Oid(n) : n \in CartProducts}

Quantities == {NoNumber} \cup {JsonNum(n) : n \in {-1, 0, 2}}

\* --------------------------------------------------------------- state
NoList == [status |-> 0, body |-> <<>>]

IdleProductRequest ==
  [pc |-> "idle", body |-> BaseBody, files |-> <<>>, product |-> NoDoc,
   status |-> 0, error |-> "", persisted |-> FALSE]

NoCartItem == [isNull |-> TRUE, isNew |-> FALSE, id |-> 0, productId |-> 0, quantity |-> 0]

IdleCartRequest ==
  [pc |-> "idle", productId |-> NoProductId, quantity |-> NoNumber,
   cartItem |-> NoCartItem, status |-> 0, error |-> ""]

Init ==
  /\ products = <<>>
  /\ cart = <<>>
  /\ now = 0
  /\ preq = [r \in ProdReqs |-> IdleProductRequest]
  /\ creq = [r \in CartReqs |-> IdleCartRequest]
  /\ listResp = NoList

\* Time passes.
Tick ==
  /\ now < MaxClock
  /\ now' = now + 1
  /\ UNCHANGED <<products, cart, preq, creq, listResp>>

\* ------------------------------------------------- POST /api/products
\* The requests are numbered in their order of arrival.
\* The upload middleware, then the handler up to its await of save().
PostProducts(r, req) ==
  /\ preq[r].pc = "idle"
  /\ \A o \in ProdReqs : o < r => preq[o].pc # "idle"
  /\ LET up == upload(req.files)
         got == [preq[r] EXCEPT !.body = req.body, !.files = req.files]
     IN preq' = [preq EXCEPT ![r] =
          IF up.kind # "ok"
            THEN [got EXCEPT !.pc = "done",
                             !.status = errorMiddleware(up).status,
                             !.error = errorMiddleware(up).error]
          ELSE IF TitleOrPriceMissing(req.body)
            THEN [got EXCEPT !.pc = "done", !.status = 400,
                             !.error = "Title and price are required"]
          ELSE [got EXCEPT !.pc = "save",
                           !.product = newProduct(req.body, up.paths, now)]]
  /\ UNCHANGED <<products, cart, now, creq, listResp>>

\* await product.save(), then the 201 response or the catch block.
ProductSave(r) ==
  /\ preq[r].pc = "save"
  /\ IF productValid(preq[r].product)
     THEN /\ products' = Append(products,
                [id |-> Len(products) + 1] @@ preq[r].product)
          /\ preq' = [preq EXCEPT ![r].pc = "done", ![r].status = 201,
                                  ![r].persisted = TRUE]
     ELSE /\ preq' = [preq EXCEPT ![r].pc = "done", ![r].status = 500,
                                  ![r].error = "Internal server error"]
          /\ UNCHANGED products
  /\ UNCHANGED <<cart, now, creq, listResp>>

\* ---------------------------------------------------- GET /api/products
GetProducts ==
  /\ listResp' = [status |-> 200, body |-> sortByCreatedAtDesc(products)]
  /\ UNCHANGED <<products, cart, now, preq, creq>>

NextProducts ==
  \/ Tick
  \/ \E r \in ProdReqs, req \in ProductRequests : PostProducts(r, req)
  \/ \E r \in ProdReqs : ProductSave(r)
  \/ GetProducts

SpecProducts == Init /\ [][NextProducts]_vars

\* ----------------------------------------------------- POST /api/cart
\* Mutant of quantityOrOne: quantity ?? 1, which keeps a zero.
quantityOrOneNullish(q) == IF ~q.present THEN 1 ELSE q.value

\* quantity || 1
quantityOrOne(q) == IF FalsyNum(q) THEN 1 ELSE q.value

\* Product.findById(productId): a cast error for a text that is no ObjectId,
\* null for an ObjectId no product has, the product otherwise.
findById(pid) ==
  IF ~pid.wellFormed THEN "CastError"
  ELSE IF \E i \in 1..Len(products) : products[i].id = pid.id THEN "found"
  ELSE "null"

\* Cart.findOne({ productId }): the first cart line of the product in storage
\* order, or null.
findOne(pid) ==
  LET at == {i \in 1..Len(cart) : cart[i].productId = pid}
  IN IF at = {} THEN NoCartItem
     ELSE LET first == CHOOSE i \in at : \A j \in at : i <= j
          IN [isNull |-> FALSE, isNew |-> FALSE, id |-> cart[first].id,
              productId |-> pid, quantity |-> cart[first].quantity]

\* The handler up to its await of Product.findById.
PostCart(r, pid, q) ==
  /\ creq[r].pc = "idle"
  /\ \A o \in CartReqs : o < r => creq[o].pc # "idle"
  /\ LET got == [creq[r] EXCEPT !.productId = pid, !.quantity = q]
     IN creq' = [creq EXCEPT ![r] =
          IF ~pid.present
            THEN [got EXCEPT !.pc = "done", !.status = 400,
                             !.error = "Product ID is required"]
            ELSE [got EXCEPT !.pc = "findById"]]
  /\ UNCHANGED <<products, cart, now, preq, listResp>>

\* Product.findById resolves; the handler runs up to its await of Cart.findOne.
CartFindById(r) ==
  /\ creq[r].pc = "findById"
  /\ LET product == findById(creq[r].productId)
     IN creq' = [creq EXCEPT ![r] =
          IF product = "CastError"
            THEN [@ EXCEPT !.pc = "done", !.status = 500,
                           !.error = "Internal server error"]
          ELSE IF product = "null"
            THEN [@ EXCEPT !.pc = "done", !.status = 404,
                           !.error = "Product not found"]
          ELSE [@ EXCEPT !.pc = "findOne"]]
  /\ UNCHANGED <<products, cart, now, preq, listResp>>

\* Cart.findOne resolves; the handler updates the line it got, or makes a new
\* one, and runs up to its await of save().
CartFindOne(r) ==
  /\ creq[r].pc = "findOne"
  /\ LET cartItem == findOne(creq[r].productId.id)
     IN creq' = [creq EXCEPT ![r].pc = "save", ![r].cartItem =
          IF ~cartItem.isNull
            THEN [cartItem EXCEPT
                    !.quantity = cartItem.quantity + quantityOrOne(creq[r].quantity)]
            ELSE [isNull |-> FALSE, isNew |-> TRUE, id |-> 0,
                  productId |-> creq[r].productId.id,
                  quantity |-> quantityOrOne(creq[r].quantity)]]
  /\ UNCHANGED <<products, cart, now, preq, listResp>>

\* cartItem.save() resolves: a new document is inserted, a loaded one has its
\* changed quantity set on the stored line; then the 201 response.
CartSave(r) ==
  /\ creq[r].pc = "save"
  /\ LET cartItem == creq[r].cartItem
     IN IF cartItem.isNew
        THEN /\ cart' = Append(cart, [id |-> Len(cart) + 1,
                                      productId |-> cartItem.productId,
                                      quantity |-> cartItem.quantity])
             /\ creq' = [creq EXCEPT ![r].pc = "done", ![r].status = 201,
                                     ![r].cartItem.isNew = FALSE,
                                     ![r].cartItem.id = Len(cart) + 1]
        ELSE /\ cart' = [i \in 1..Len(cart) |->
                           IF cart[i].id = cartItem.id
                           THEN [cart[i] EXCEPT !.quantity = cartItem.quantity]
                           ELSE cart[i]]
             /\ creq' = [creq EXCEPT ![r].pc = "done", ![r].status = 201]
  /\ UNCHANGED <<products, now, preq, listResp>>

CartInFlight(r) == creq[r].pc \in {"findById", "findOne", "save"}

\* The cart handlers beside the creation of plain products, the requests
\* running concurrently.
NextCart ==
  \/ \E r \in CartProducts : PostProducts(r, [body |-> BaseBody, files |-> <<>>])
  \/ \E r \in CartProducts : ProductSave(r)
  \/ \E r \in CartReqs, pid \in ProductIds, q \in Quantities : PostCart(r, pid, q)
  \/ \E r \in CartReqs : CartFindById(r)
  \/ \E r \in CartReqs : CartFindOne(r)
  \/ \E r \in CartReqs : CartSave(r)

SpecCart == Init /\ [][NextCart]_vars

\* The same, each add-to-cart request received only once the one before it
\* has been answered.
NextCartSerial ==
  \/ \E r \in CartProducts : PostProducts(r, [body |-> BaseBody, files |-> <<>>])
  \/ \E r \in CartProducts : ProductSave(r)
  \/ \E r \in CartReqs, pid \in ProductIds, q \in Quantities :
        /\ \A o \in CartReqs : ~CartInFlight(o)
        /\ PostCart(r, pid, q)
  \/ \E r \in CartReqs : CartFindById(r)
  \/ \E r \in CartReqs : CartFindOne(r)
  \/ \E r \in CartReqs : CartSave(r)

SpecCartSerial == Init /\ [][NextCartSerial]_vars

\* ============================================================== claims
Answered(r) == creq[r].pc = "done"
Created(r) == preq[r].pc = "done"

LinesOf(p) == {i \in 1..Len(cart) : cart[i].productId = p}

\* The add-to-cart requests for product p answered with 201.
AddedToCart(p) ==
  {r \in CartReqs : Answered(r) /\ creq[r].status = 201 /\ creq[r].productId = Oid(p)}

RECURSIVE SumOver(_, _)
SumOver(f, S) ==
  IF S = {} THEN 0
  ELSE LET x == CHOOSE y \in S : TRUE IN f[x] + SumOver(f, S \ {x})

\* The quantity a request asks for, an omitted one counting as 1.
AskedOmittedAsOne == [r \in CartReqs |->
  IF creq[r].quantity.present THEN creq[r].quantity.value ELSE 1]

\* The same, an omitted or zero one counting as 1.
AskedFalsyAsOne == [r \in CartReqs |->
  IF creq[r].quantity.present /\ creq[r].quantity.value # 0
  THEN creq[r].quantity.value ELSE 1]

\* C1: at most one cart line exists per product, also when add-to-cart
\* requests for one product interleave at their awaits.
C1_AtMostOneLinePerProduct ==
  \A i, j \in 1..Len(cart) : cart[i].productId = cart[j].productId => i = j

\* C2, as stated: after add-to-cart requests on one product that ran one after
\* the other, the product has exactly one cart line and its quantity is the sum
\* of the quantities asked for, an omitted quantity counting as 1.
C2_SumOmittedAsOne ==
  \A p \in CartProducts :
    AddedToCart(p) # {} =>
      /\ Cardinality(LinesOf(p)) = 1
      /\ \A i \in LinesOf(p) : cart[i].quantity = SumOver(AskedOmittedAsOne, AddedToCart(p))

\* C2, amended: the same, an omitted or zero quantity counting as 1.
C2_SumFalsyAsOne ==
  \A p \in CartProducts :
    AddedToCart(p) # {} =>
      /\ Cardinality(LinesOf(p)) = 1
      /\ \A i \in LinesOf(p) : cart[i].quantity = SumOver(AskedFalsyAsOne, AddedToCart(p))

\* Three requests on one product, with quantity 0, with no quantity and with
\* quantity 2, have been answered and the line holds 1 + 1 + 2.
C2_Witness ==
  \E p \in CartProducts :
    /\ Cardinality(AddedToCart(p)) = 3
    /\ \E r \in AddedToCart(p) : creq[r].quantity = JsonNum(0)
    /\ \E r \in AddedToCart(p) : creq[r].quantity = NoNumber
    /\ \E r \in AddedToCart(p) : creq[r].quantity = JsonNum(2)
    /\ \A i \in LinesOf(p) : cart[i].quantity = 4

Resolves(pid) ==
  pid.wellFormed /\ \E i \in 1..Len(products) : products[i].id = pid.id

\* C3: an add-to-cart request whose productId resolves to no product is
\* answered 404 "Product not found" and has written no cart line.
C3_UnknownProductIs404 ==
  \A r \in CartReqs :
    (Answered(r) /\ creq[r].productId.present /\ ~Resolves(creq[r].productId)) =>
      /\ creq[r].status = 404
      /\ creq[r].error = "Product not found"
      /\ creq[r].cartItem.isNull

LacksTitleOrPrice(r) ==
  \/ ~preq[r].body.title.present \/ preq[r].body.title.text = ""
  \/ ~preq[r].body.price.present \/ preq[r].body.price.text = <<>>

AnsweredTitleAndPriceRequired(r) ==
  /\ preq[r].status = 400
  /\ preq[r].error = "Title and price are required"
  /\ ~preq[r].persisted

\* C4, as stated: every create-product request that lacks title or price is
\* answered 400 "Title and price are required" and persists no product.
C4_MissingFieldsAre400 ==
  \A r \in ProdReqs :
    (Created(r) /\ LacksTitleOrPrice(r)) => AnsweredTitleAndPriceRequired(r)

UploadViolates(files) ==
  \E i \in 1..Len(files) :
    \/ i > 5
    \/ files[i].mimetype \notin {"image/jpeg", "image/png", "image/jpg"}
    \/ files[i].size > 5242880

\* C4, amended: every create-product request whose upload breaks no type, size
\* or count rule and that lacks title or price is answered 400 "Title and price
\* are required" and persists no product.
C4_MissingFieldsAre400AfterUpload ==
  \A r \in ProdReqs :
    (Created(r) /\ ~UploadViolates(preq[r].files) /\ LacksTitleOrPrice(r)) =>
      AnsweredTitleAndPriceRequired(r)

\* A request with an accepted file and no title, and one with no files and no
\* price, have been answered.
C4_Witness ==
  /\ \E r \in ProdReqs :
       /\ Created(r) /\ preq[r].files # <<>> /\ ~UploadViolates(preq[r].files)
       /\ ~preq[r].body.title.present /\ preq[r].status = 400
  /\ \E r \in ProdReqs :
       /\ Created(r) /\ preq[r].files = <<>>
       /\ ~preq[r].body.price.present /\ preq[r].status = 400

UploadErrorBodies ==
  {"File upload error: " \o detail :
     detail \in {"File too large", "Unexpected field", "Too many files",
                 "Only JPEG, JPG, and PNG images are allowed!"}}

\* C5: a create-product request whose upload breaks a type, size or count rule
\* is answered 400 with "File upload error: " and a detail, and persists no
\* product.
C5_UploadViolationIs400 ==
  \A r \in ProdReqs :
    (Created(r) /\ UploadViolates(preq[r].files)) =>
      /\ preq[r].status = 400
      /\ preq[r].error \in UploadErrorBodies
      /\ ~preq[r].persisted

\* C6: a create-product request with a title and with a price text that is no
\* number is answered 400 and persists no product.
C6_MalformedPriceIs400 ==
  \A r \in ProdReqs :
    (/\ Created(r)
     /\ ~UploadViolates(preq[r].files)
     /\ preq[r].body.title.present /\ preq[r].body.title.text # ""
     /\ preq[r].body.price.present /\ preq[r].body.price.text # <<>>
     /\ parseFloat(preq[r].body.price.text).isNaN) =>
      /\ preq[r].status = 400
      /\ ~preq[r].persisted

\* C7: every stored product has a non-empty title, a price that is a number and
\* is not negative, a rating in [0, 5], an itemType of the enumeration and at
\* most 5 images.
C7_ProductBounds ==
  \A i \in 1..Len(products) :
    /\ products[i].title # ""
    /\ ~products[i].price.isNaN
    /\ products[i].price.value >= 0
    /\ ~products[i].rating.isNaN
    /\ products[i].rating.value >= 0
    /\ products[i].rating.value <= 5
    /\ products[i].itemType \in {"cold", "organic", "regular"}
    /\ Len(products[i].images) <= 5

\* C8: every cart line has a quantity of at least 1.
C8_QuantityPositive ==
  \A i \in 1..Len(cart) : cart[i].quantity >= 1

\* C9: GET /api/products answers 200 with exactly the stored products, most
\* recently created first.
C9_ListIsAllByRecency ==
  [][GetProducts =>
       /\ listResp'.status = 200
       /\ Len(listResp'.body) = Len(products)
       /\ \A i \in 1..Len(products) :
            \E j \in 1..Len(listResp'.body) : listResp'.body[j] = products[i]
       /\ \A i, j \in 1..Len(listResp'.body) :
            i < j => listResp'.body[i].createdAt >= listResp'.body[j].createdAt]_vars

\* A listing of two products in which the later stored, later created one
\* comes first.
C9_Witness ==
  /\ listResp.status = 200
  /\ Len(listResp.body) = 2
  /\ listResp.body[1].id = 2
  /\ listResp.body[1].createdAt > listResp.body[2].createdAt

\* C10: once the add-to-cart requests on a product are all answered and the
\* product has its one cart line, the line's quantity is the sum of what the
\* 201-answered requests applied, whatever their interleaving.
C10_NoLostIncrement ==
  \A p \in CartProducts :
    (/\ \A r \in CartReqs : ~CartInFlight(r)
     /\ Cardinality(LinesOf(p)) = 1) =>
      \A i \in LinesOf(p) : cart[i].quantity = SumOver(AskedFalsyAsOne, AddedToCart(p))

====
